---- MODULE Spec2Model ----
(***************************************************************************)
(* Threshold Ed25519 cosigner engine                                       *)
(* (signer/threshold_ed25519_signature.go,                                 *)
(*  LocalSoftSignThresholdEd25519Signature).                               *)
(*                                                                         *)
(* Byte slices are tuples of integers: nil is <<>>, a 32-byte scalar or    *)
(* curve element is a 1-tuple <<v>> with v its value (an element is named  *)
(* by its discrete logarithm).  HrsMetadata values are struct copies whose *)
(* slices share their backing arrays, so hrsMeta maps a key to a reference *)
(* into heap, where the Secret, DealtShares and Peers arrays live.         *)
(***************************************************************************)
EXTENDS Integers, Sequences, FiniteSets, TLC

VARIABLES lastSignState, hrsMeta, heap, dealt, calls, last, signedLog,
          firstDeal, lastDeal, pc, mutex, fatal

vars == <<lastSignState, hrsMeta, heap, dealt, calls, last, signedLog,
          firstDeal, lastDeal, pc, mutex, fatal>>

(***************************************************************************)
(* Bounds of the model                                                     *)
(***************************************************************************)
MaxCoords == 4
MaxBlock == 2
MaxCalls == 4
MaxConcCalls == 3
MaxLockCalls == 3

(***************************************************************************)
(* Configuration of the cosigner (fields of the struct, lines 49-65)       *)
(***************************************************************************)
total == 2
threshold == 2
SelfID == 1
ScalarSize == 1
GroupOrder == 97
NanosPerTick == 1000
ZeroTime == 0 - 62

IDs == 1..total
peers == IDs
ShareKey == 5
pubKeyBytes == 11

(***************************************************************************)
(* Input domains                                                           *)
(***************************************************************************)
\* the coordinates (Height, Round, Step, time stamp) requests are made for:
\* two time stamps at one HRS, then HRS values that differ from it in the
\* round (with a lower step) and in the height (with a lower round)
Coord(height, round, step, time) ==
  [Height |-> height, Round |-> round, Step |-> step, Timestamp |-> time]

CoordList ==
  << Coord(1, 0, 2, 1), Coord(1, 0, 2, 2), Coord(1, 1, 1, 1),
     Coord(2, 0, 1, 1), Coord(1, 1, 1, 2), Coord(2, 0, 1, 2) >>

Coords == { CoordList[i] : i \in 1..MaxCoords }
BlockIDs == 1..MaxBlock

NoErr == "nil"

(***************************************************************************)
(* Time stamps and keys                                                    *)
(***************************************************************************)
\* time.Time.UnixNano: a time.Time is a tick count relative to the Unix
\* epoch; the zero time.Time (year 1) lies before the epoch.
UnixNano(t) == t * NanosPerTick

HRSTKey(height, round, step, timestamp) ==
  [Height |-> height, Round |-> round, Step |-> step, Timestamp |-> timestamp]

NoKey == HRSTKey(0, 0, 0, 0)

HRSOf(k) == [Height |-> k.Height, Round |-> k.Round, Step |-> k.Step]

\* HRSTKey.Less: lexicographic order on (Height, Round, Step); the
\* timestamp takes no part.
LessStepFirst(a, b) ==
  \/ a.Step < b.Step
  \/ a.Step = b.Step /\ a.Round < b.Round
  \/ a.Step = b.Step /\ a.Round = b.Round /\ a.Height < b.Height

Less(a, b) ==
  \/ a.Height < b.Height
  \/ a.Height = b.Height /\ a.Round < b.Round
  \/ a.Height = b.Height /\ a.Round = b.Round /\ a.Step < b.Step

(***************************************************************************)
(* Sign bytes: the canonical vote <<Step, Height, Round, BlockID, Time>>.  *)
(***************************************************************************)
SignBytesLen == 5

MkSignBytes(c, block) ==
  <<c.Step, c.Height, c.Round, block, c.Timestamp>>

Undecodable == <<0>>

\* UnpackHRST: decode the vote and read its coordinates.
UnpackHRST(signBytes) ==
  IF Len(signBytes) # SignBytesLen
  THEN [hrst |-> NoKey, err |-> "DecodeError"]
  ELSE [hrst |-> HRSTKey(signBytes[2], signBytes[3], signBytes[1],
                         UnixNano(signBytes[5])),
        err |-> NoErr]

(***************************************************************************)
(* SignState (section 4.4 of the specification)                            *)
(***************************************************************************)
\* SignState.CheckHRS
CheckHRS(lss, hrst) ==
  IF Less(hrst, lss) THEN [sameHRS |-> FALSE, err |-> "RegressionError"]
  ELSE IF Less(lss, hrst) THEN [sameHRS |-> FALSE, err |-> NoErr]
  ELSE [sameHRS |-> TRUE, err |-> NoErr]

\* every field of the decoded vote other than the timestamp
NonTimestampFields(signBytes) == SubSeq(signBytes, 1, SignBytesLen - 1)

\* SignState.OnlyDifferByTimestamp
OnlyDifferByTimestamp(lss, signBytes) ==
  IF /\ Len(lss.SignBytes) = SignBytesLen
     /\ Len(signBytes) = SignBytesLen
     /\ NonTimestampFields(lss.SignBytes) = NonTimestampFields(signBytes)
  THEN NoErr
  ELSE "ConflictingDataError"

\* SignState.Save
Save(lss, ssc) ==
  IF Less(ssc, lss) THEN [lss |-> lss, err |-> "RegressionError"]
  ELSE IF ~Less(lss, ssc) /\ ssc.SignBytes = lss.SignBytes
  THEN [lss |-> lss, err |-> "SameHRSError"]
  ELSE [lss |-> [lss EXCEPT !.Height = ssc.Height, !.Round = ssc.Round,
                            !.Step = ssc.Step, !.Signature = ssc.Signature,
                            !.SignBytes = ssc.SignBytes],
        err |-> NoErr]

(***************************************************************************)
(* Scalar and curve primitives (tsed25519, edwards25519)                   *)
(***************************************************************************)
RECURSIVE SumValues(_)
SumValues(parts) ==
  IF parts = <<>> THEN 0 ELSE Head(parts)[1] + SumValues(Tail(parts))

AddScalars(parts) == << SumValues(parts) % GroupOrder >>
AddElements(parts) == << SumValues(parts) % GroupOrder >>
ScalarMultiplyBase(secret) == << secret[1] % GroupOrder >>
ScMinimal(scalar) == scalar[1] < GroupOrder

\* tsed25519.DealShares: share i of a secret; the randomness of the split
\* is tied to the secret, itself a fresh random value.
DealShares(secret, t, n) ==
  [i \in 1..n |-> << (secret[1] * (n + 1) + i) % GroupOrder >>]

\* tsed25519.SignWithShare, as the term of its arguments
SignWithShare(signBytes, shareKey, ephemeralShare, pub, ephemeralPublic) ==
  ephemeralPublic \o ephemeralShare \o <<shareKey, pub>> \o signBytes

\* crypto/rand.Read: the n-th draw of the random source
RandRead(n) == << n + 1 >>

(***************************************************************************)
(* RSA-OAEP and RSA-PSS, as terms                                          *)
(***************************************************************************)
EncryptOAEP(dest, plain) == <<dest>> \o plain
DecryptOAEP(holder, cipher) ==
  IF Len(cipher) >= 1 /\ cipher[1] = holder
  THEN [plain |-> Tail(cipher), err |-> NoErr]
  ELSE [plain |-> <<>>, err |-> "CryptoError"]

\* sha256 of the JSON of {SourceID, SourceEphemeralSecretPublicKey,
\* EncryptedSharePart}
Digest(sourceID, ephPub, encrypted) == <<sourceID>> \o ephPub \o encrypted

SignPSS(signer, digest) == <<signer>> \o digest
VerifyPSS(keyOwner, digest, sig) == sig = <<keyOwner>> \o digest

(***************************************************************************)
(* Maps and the heap                                                       *)
(***************************************************************************)
EmptyMap == [x \in {} |-> 0]

MapPut(f, k, v) == [x \in DOMAIN f \cup {k} |-> IF x = k THEN v ELSE f[x]]

MapDeleteAll(f, ks) == [x \in DOMAIN f \ ks |-> f[x]]

Range(f) == { f[x] : x \in DOMAIN f }

\* arrays no hrsMeta value refers to any more are reclaimed
Collect(hm, hp) == [r \in DOMAIN hp \cap Range(hm) |-> hp[r]]

\* the same, with the arrays the callers' local meta values refer to kept
CollectHeld(hm, hp, held) ==
  [r \in DOMAIN hp \cap (Range(hm) \cup held) |-> hp[r]]

EmptyPeer == [Share |-> <<>>, EphemeralSecretPublicKey |-> <<>>]

\* the HrsMetadata value stored under key k: its three slices
MetaAt(hm, hp, k) == hp[hm[k]]

(***************************************************************************)
(* dealShares (lines 164-195)                                              *)
(***************************************************************************)
\* lines 165-170: the key of a request [Height, Round, Step, Timestamp]
dealSharesKey(req) ==
  HRSTKey(req.Height, req.Round, req.Step, UnixNano(req.Timestamp))

\* lines 178-194: draw a secret, split it, store the metadata under hrsKey;
\* n: draws made from the random source so far
dealSharesCreate(hm, hp, n, hrsKey) ==
  LET secret == RandRead(n)
      ref == n + 1
      meta == [Secret |-> secret,
               Peers |-> [i \in 1..total |-> EmptyPeer],
               DealtShares |-> DealShares(secret, threshold, total)]
  IN [meta |-> ref, hrsMeta |-> MapPut(hm, hrsKey, ref),
      heap |-> MapPut(hp, ref, meta), dealt |-> n + 1,
      hrsKey |-> hrsKey, err |-> NoErr, ret |-> 194]

dealShares(hm, hp, n, req) ==
  LET hrsKey == dealSharesKey(req)
  IN IF hrsKey \in DOMAIN hm
     THEN [meta |-> hm[hrsKey], hrsMeta |-> hm, heap |-> hp, dealt |-> n,
           hrsKey |-> hrsKey, err |-> NoErr, ret |-> 175]
     ELSE dealSharesCreate(hm, hp, n, hrsKey)

\* what a call did with dealShares, for the record of the call
NoDeal == [key |-> NoKey, Secret |-> <<>>, DealtShares |-> <<>>]

DealRecord(d) ==
  [key |-> d.hrsKey, Secret |-> d.heap[d.meta].Secret,
   DealtShares |-> d.heap[d.meta].DealtShares]

(***************************************************************************)
(* getEphemeralSecretPart (lines 200-278)                                  *)
(***************************************************************************)
NoPart == [SourceID |-> 0, SourceEphemeralSecretPublicKey |-> <<>>,
           EncryptedSharePart |-> <<>>, SourceSig |-> <<>>, DestinationID |-> 0]

\* lines 208-213 (and 318-323): the key of the request
hrstOf(req) ==
  HRSTKey(req.Height, req.Round, req.Step, UnixNano(req.Timestamp))

\* lines 218-223: the request handed to dealShares
getDealRequest(req) ==
  [Height |-> req.Height, Round |-> req.Round, Step |-> req.Step,
   Timestamp |-> req.Timestamp]

\* lines 215-231: look the metadata up, or deal it
getLookup(hm, hp, n, req) ==
  LET hrst == hrstOf(req)
  IN IF hrst \in DOMAIN hm
     THEN [meta |-> hm[hrst], hrsMeta |-> hm, heap |-> hp, dealt |-> n,
           deal |-> NoDeal, hrst |-> hrst]
     ELSE LET d == dealShares(hm, hp, n, getDealRequest(req))
          IN [meta |-> d.meta, hrsMeta |-> MapPut(d.hrsMeta, hrst, d.meta),
              heap |-> d.heap, dealt |-> d.dealt, deal |-> DealRecord(d),
              hrst |-> hrst]

\* lines 233-237: our own slot
getSetOwnSlot(hp, ref) ==
  LET meta == hp[ref]
      ourEphPublicKey == ScalarMultiplyBase(meta.Secret)
  IN [hp EXCEPT ![ref].Peers[SelfID] =
        [Share |-> meta.DealtShares[SelfID],
         EphemeralSecretPublicKey |-> ourEphPublicKey]]

\* lines 233-277: our own slot, then the part for the requested peer; ref:
\* the local meta
getRespond(hp, ref, req) ==
  LET hp2 == getSetOwnSlot(hp, ref)
      meta == hp2[ref]
      ourEphPublicKey == ScalarMultiplyBase(meta.Secret)
  IN IF req.ID \notin peers
     THEN [heap |-> hp2, res |-> NoPart, err |-> "unknown peer ID",
           ret |-> 242]
     ELSE LET encrypted == EncryptOAEP(req.ID, meta.DealtShares[req.ID])
              digest == Digest(SelfID, ourEphPublicKey, encrypted)
          IN [heap |-> hp2,
              res |-> [SourceID |-> SelfID,
                       SourceEphemeralSecretPublicKey |-> ourEphPublicKey,
                       EncryptedSharePart |-> encrypted,
                       SourceSig |-> SignPSS(SelfID, digest),
                       DestinationID |-> req.ID],
              err |-> NoErr, ret |-> 277]

getEphemeralSecretPart(hm, hp, n, req) ==
  LET l == getLookup(hm, hp, n, req)
      g == getRespond(l.heap, l.meta, req)
  IN [hrsMeta |-> l.hrsMeta, heap |-> g.heap, dealt |-> l.dealt,
      deal |-> l.deal, hrst |-> l.hrst, res |-> g.res, err |-> g.err,
      ret |-> g.ret]

(***************************************************************************)
(* setEphemeralSecretPart (lines 282-352)                                  *)
(***************************************************************************)
\* lines 284-312: with the signature check left out
setVerifyNoSignatureCheck(req) ==
  IF req.SourceSig = <<>>
  THEN [err |-> "SourceSig field is required", ret |-> 287]
  ELSE IF req.SourceID \notin peers
  THEN [err |-> "unknown cosigner", ret |-> 304]
  ELSE [err |-> NoErr, ret |-> 0]

\* lines 284-312 with the digest extended by the request's Height, Round,
\* Step and Timestamp
setVerifyCoversHRST(req) ==
  IF req.SourceSig = <<>>
  THEN [err |-> "SourceSig field is required", ret |-> 287]
  ELSE IF req.SourceID \notin peers
  THEN [err |-> "unknown cosigner", ret |-> 304]
  ELSE IF ~VerifyPSS(req.SourceID,
                     Digest(req.SourceID, req.SourceEphemeralSecretPublicKey,
                            req.EncryptedSharePart)
                       \o <<req.Height, req.Round, req.Step, req.Timestamp>>,
                     req.SourceSig)
  THEN [err |-> "PeerAuthError", ret |-> 310]
  ELSE [err |-> NoErr, ret |-> 0]

\* lines 284-312: verify the source signature
setVerify(req) ==
  IF req.SourceSig = <<>>
  THEN [err |-> "SourceSig field is required", ret |-> 287]
  ELSE IF req.SourceID \notin peers
  THEN [err |-> "unknown cosigner", ret |-> 304]
  ELSE IF ~VerifyPSS(req.SourceID,
                     Digest(req.SourceID, req.SourceEphemeralSecretPublicKey,
                            req.EncryptedSharePart),
                     req.SourceSig)
  THEN [err |-> "PeerAuthError", ret |-> 310]
  ELSE [err |-> NoErr, ret |-> 0]

\* lines 328-332: the request handed to dealShares; it carries no
\* Timestamp, which is then the zero time.Time
setDealRequest(req) ==
  [Height |-> req.Height, Round |-> req.Round, Step |-> req.Step,
   Timestamp |-> ZeroTime]

\* lines 325-340 without the store under the request's key (line 339)
setLookupNoStore(hm, hp, n, req) ==
  LET hrst == hrstOf(req)
  IN IF hrst \in DOMAIN hm
     THEN [meta |-> hm[hrst], hrsMeta |-> hm, heap |-> hp, dealt |-> n,
           deal |-> NoDeal, hrst |-> hrst]
     ELSE LET d == dealShares(hm, hp, n, setDealRequest(req))
          IN [meta |-> d.meta, hrsMeta |-> d.hrsMeta,
              heap |-> d.heap, dealt |-> d.dealt, deal |-> DealRecord(d),
              hrst |-> hrst]

\* lines 325-340: look the metadata up, or deal it (the request handed to
\* dealShares carries no Timestamp, which is then the zero time.Time)
setLookup(hm, hp, n, req) ==
  LET hrst == hrstOf(req)
  IN IF hrst \in DOMAIN hm
     THEN [meta |-> hm[hrst], hrsMeta |-> hm, heap |-> hp, dealt |-> n,
           deal |-> NoDeal, hrst |-> hrst]
     ELSE LET d == dealShares(hm, hp, n, setDealRequest(req))
          IN [meta |-> d.meta, hrsMeta |-> MapPut(d.hrsMeta, hrst, d.meta),
              heap |-> d.heap, dealt |-> d.dealt, deal |-> DealRecord(d),
              hrst |-> hrst]

\* lines 343-351: decrypt the share and set the sender's slot; ref: the
\* local meta
setSlot(hp, ref, req) ==
  LET dec == DecryptOAEP(SelfID, req.EncryptedSharePart)
  IN IF dec.err # NoErr
     THEN [heap |-> hp, err |-> dec.err, ret |-> 345]
     ELSE [heap |-> [hp EXCEPT ![ref].Peers[req.SourceID] =
                       [Share |-> dec.plain,
                        EphemeralSecretPublicKey |->
                          req.SourceEphemeralSecretPublicKey]],
           err |-> NoErr, ret |-> 351]

setEphemeralSecretPart(hm, hp, n, req) ==
  LET v == setVerify(req)
  IN IF v.err # NoErr
     THEN [hrsMeta |-> hm, heap |-> hp, dealt |-> n, deal |-> NoDeal,
           hrst |-> NoKey, err |-> v.err, ret |-> v.ret]
     ELSE LET l == setLookup(hm, hp, n, req)
              w == setSlot(l.heap, l.meta, req)
          IN [hrsMeta |-> l.hrsMeta, heap |-> w.heap, dealt |-> l.dealt,
              deal |-> l.deal, hrst |-> l.hrst, err |-> w.err, ret |-> w.ret]

(***************************************************************************)
(* sign (lines 68-161)                                                     *)
(***************************************************************************)
NoRes == [EphemeralPublic |-> <<>>, Signature |-> <<>>]

\* lines 80-83 with the early return on a CheckHRS error left out
signCheckHRSNoReturn(lss, hrst) ==
  [sameHRS |-> CheckHRS(lss, hrst).sameHRS, err |-> NoErr]

\* lines 80-83 with a check that compares the heights only
signCheckHRSHeightOnly(lss, hrst) ==
  IF hrst.Height < lss.Height
  THEN [sameHRS |-> FALSE, err |-> "RegressionError"]
  ELSE [sameHRS |-> CheckHRS(lss, hrst).sameHRS, err |-> NoErr]

\* lines 80-83: CheckHRS, returning its error
signCheckHRS(lss, hrst) == CheckHRS(lss, hrst)

\* lines 87-97 without the OnlyDifferByTimestamp refusal
signSameHRSNoConflictCheck(lss, sameHRS, signBytes) ==
  IF sameHRS /\ signBytes = lss.SignBytes
  THEN [return |-> TRUE, err |-> NoErr, ret |-> 91,
        res |-> [EphemeralPublic |-> lss.EphemeralPublic,
                 Signature |-> lss.Signature]]
  ELSE [return |-> FALSE, res |-> NoRes, err |-> NoErr, ret |-> 0]

\* lines 87-97 refusing every other sign bytes at the same HRS
signSameHRSStrict(lss, sameHRS, signBytes) ==
  IF ~sameHRS THEN [return |-> FALSE, res |-> NoRes, err |-> NoErr, ret |-> 0]
  ELSE IF signBytes = lss.SignBytes
  THEN [return |-> TRUE, err |-> NoErr, ret |-> 91,
        res |-> [EphemeralPublic |-> lss.EphemeralPublic,
                 Signature |-> lss.Signature]]
  ELSE [return |-> TRUE, res |-> NoRes, ret |-> 93,
        err |-> "ConflictingDataError"]

\* lines 87-97: replay, refusal, or go on to sign
signSameHRS(lss, sameHRS, signBytes) ==
  IF ~sameHRS THEN [return |-> FALSE, res |-> NoRes, err |-> NoErr, ret |-> 0]
  ELSE IF signBytes = lss.SignBytes
  THEN [return |-> TRUE, err |-> NoErr, ret |-> 91,
        res |-> [EphemeralPublic |-> lss.EphemeralPublic,
                 Signature |-> lss.Signature]]
  ELSE IF OnlyDifferByTimestamp(lss, signBytes) # NoErr
  THEN [return |-> TRUE, res |-> NoRes, ret |-> 93,
        err |-> OnlyDifferByTimestamp(lss, signBytes)]
  ELSE [return |-> FALSE, res |-> NoRes, err |-> NoErr, ret |-> 0]

\* lines 104-114: the populated slots, in slot order
signCollect(peerSlots) ==
  LET populated == SelectSeq(peerSlots, LAMBDA peer : Len(peer.Share) # 0)
  IN [shareParts |-> [i \in 1..Len(populated) |-> populated[i].Share],
      publicKeys |-> [i \in 1..Len(populated) |->
                        populated[i].EphemeralSecretPublicKey]]

\* lines 135-148 with the Save call left out
signPersistNoSave(lss, hrst, sig, signBytes, ephemeralPublic) ==
  [lss |-> [lss EXCEPT !.EphemeralPublic = ephemeralPublic], err |-> NoErr]

\* lines 135-148: set EphemeralPublic, then Save
signPersist(lss, hrst, sig, signBytes, ephemeralPublic) ==
  Save([lss EXCEPT !.EphemeralPublic = ephemeralPublic],
       [Height |-> hrst.Height, Round |-> hrst.Round, Step |-> hrst.Step,
        Signature |-> sig, SignBytes |-> signBytes])

\* lines 150-156 with the loop left out
signGCNone(hm, hrst) == hm

\* lines 150-156: drop every entry with a lower HRS
signGC(hm, hrst) ==
  MapDeleteAll(hm, { existingKey \in DOMAIN hm : Less(existingKey, hrst) })

\* lines 75-160 with the metadata lookup of lines 99-102 made before the
\* same-HRS branch of lines 87-97
signLookupBeforeReplay(lss, hm, hp, req) ==
  LET unchanged == [lastSignState |-> lss, hrsMeta |-> hm, heap |-> hp]
      up == UnpackHRST(req.SignBytes)
      hrst == up.hrst
      chk == signCheckHRS(lss, hrst)
      same == signSameHRS(lss, chk.sameHRS, req.SignBytes)
      meta == MetaAt(hm, hp, hrst)
      col == signCollect(meta.Peers)
      ephemeralShare == AddScalars(col.shareParts)
      ephemeralPublic == AddElements(col.publicKeys)
      sig == SignWithShare(req.SignBytes, ShareKey, ephemeralShare,
                           pubKeyBytes, ephemeralPublic)
      saved == signPersist(lss, hrst, sig, req.SignBytes, ephemeralPublic)
      hm2 == signGC(hm, hrst)
  IN IF up.err # NoErr
     THEN unchanged @@ [hrst |-> NoKey, sameHRS |-> FALSE, res |-> NoRes,
                        err |-> up.err, ret |-> 77]
     ELSE IF chk.err # NoErr
     THEN unchanged @@ [hrst |-> hrst, sameHRS |-> FALSE, res |-> NoRes,
                        err |-> chk.err, ret |-> 82]
     ELSE IF hrst \notin DOMAIN hm
     THEN unchanged @@ [hrst |-> hrst, sameHRS |-> chk.sameHRS, res |-> NoRes,
                        err |-> "no metadata at HRS", ret |-> 101]
     ELSE IF same.return
     THEN unchanged @@ [hrst |-> hrst, sameHRS |-> TRUE, res |-> same.res,
                        err |-> same.err, ret |-> same.ret]
     ELSE IF Len(ephemeralShare) # ScalarSize \/ ~ScMinimal(ephemeralShare)
     THEN unchanged @@ [hrst |-> hrst, sameHRS |-> chk.sameHRS, res |-> NoRes,
                        err |-> "ephemeral share is out of bounds",
                        ret |-> 122]
     ELSE IF saved.err \notin {NoErr, "SameHRSError"}
     THEN [lastSignState |-> saved.lss, hrsMeta |-> hm, heap |-> hp,
           hrst |-> hrst, sameHRS |-> chk.sameHRS, res |-> NoRes,
           err |-> saved.err, ret |-> 146]
     ELSE [lastSignState |-> saved.lss, hrsMeta |-> hm2,
           heap |-> Collect(hm2, hp), hrst |-> hrst,
           sameHRS |-> chk.sameHRS,
           res |-> [EphemeralPublic |-> ephemeralPublic, Signature |-> sig],
           err |-> NoErr, ret |-> 160]

\* lines 75-160
sign(lss, hm, hp, req) ==
  LET unchanged == [lastSignState |-> lss, hrsMeta |-> hm, heap |-> hp]
      up == UnpackHRST(req.SignBytes)
      hrst == up.hrst
      chk == signCheckHRS(lss, hrst)
      same == signSameHRS(lss, chk.sameHRS, req.SignBytes)
      meta == MetaAt(hm, hp, hrst)
      col == signCollect(meta.Peers)
      ephemeralShare == AddScalars(col.shareParts)
      ephemeralPublic == AddElements(col.publicKeys)
      sig == SignWithShare(req.SignBytes, ShareKey, ephemeralShare,
                           pubKeyBytes, ephemeralPublic)
      saved == signPersist(lss, hrst, sig, req.SignBytes, ephemeralPublic)
      hm2 == signGC(hm, hrst)
  IN IF up.err # NoErr
     THEN unchanged @@ [hrst |-> NoKey, sameHRS |-> FALSE, res |-> NoRes,
                        err |-> up.err, ret |-> 77]
     ELSE IF chk.err # NoErr
     THEN unchanged @@ [hrst |-> hrst, sameHRS |-> FALSE, res |-> NoRes,
                        err |-> chk.err, ret |-> 82]
     ELSE IF same.return
     THEN unchanged @@ [hrst |-> hrst, sameHRS |-> TRUE, res |-> same.res,
                        err |-> same.err, ret |-> same.ret]
     ELSE IF hrst \notin DOMAIN hm
     THEN unchanged @@ [hrst |-> hrst, sameHRS |-> chk.sameHRS, res |-> NoRes,
                        err |-> "no metadata at HRS", ret |-> 101]
     ELSE IF Len(ephemeralShare) # ScalarSize \/ ~ScMinimal(ephemeralShare)
     THEN unchanged @@ [hrst |-> hrst, sameHRS |-> chk.sameHRS, res |-> NoRes,
                        err |-> "ephemeral share is out of bounds",
                        ret |-> 122]
     ELSE IF saved.err \notin {NoErr, "SameHRSError"}
     THEN [lastSignState |-> saved.lss, hrsMeta |-> hm, heap |-> hp,
           hrst |-> hrst, sameHRS |-> chk.sameHRS, res |-> NoRes,
           err |-> saved.err, ret |-> 146]
     ELSE [lastSignState |-> saved.lss, hrsMeta |-> hm2,
           heap |-> Collect(hm2, hp), hrst |-> hrst,
           sameHRS |-> chk.sameHRS,
           res |-> [EphemeralPublic |-> ephemeralPublic, Signature |-> sig],
           err |-> NoErr, ret |-> 160]

(***************************************************************************)
(* Requests                                                                *)
(***************************************************************************)
SignRequests ==
  { [SignBytes |-> MkSignBytes(c, b)] : c \in Coords, b \in BlockIDs }
  \cup { [SignBytes |-> Undecodable] }

DealRequests == Coords

GetRequests ==
  { [Height |-> c.Height, Round |-> c.Round, Step |-> c.Step,
     Timestamp |-> c.Timestamp, ID |-> i] : c \in Coords, i \in 0..total }

\* the senders: every cosigner but this one holds its own RSA key
Senders == IDs \ {SelfID}

\* what sender s dealt for this round: its share for a cosigner and its
\* ephemeral public key
PeerShare(s) == << 10 + s >>
PeerPub(s) == << 20 + s >>

\* what a sender may put in an envelope: any claimed source (0 is no
\* cosigner), its payload encrypted to any cosigner
Envelopes ==
  [SourceID : 0..total,
   SourceEphemeralSecretPublicKey : { PeerPub(s) : s \in Senders },
   EncryptedSharePart :
     { EncryptOAEP(d, PeerShare(s)) : d \in IDs, s \in Senders }]

EnvelopeDigest(e) ==
  Digest(e.SourceID, e.SourceEphemeralSecretPublicKey, e.EncryptedSharePart)

\* no signature, or the signature of a sender over the envelope
SourceSigs(e) ==
  { <<>> } \cup { SignPSS(s, EnvelopeDigest(e)) : s \in Senders }

SetRequest(c, e, g) ==
  [Height |-> c.Height, Round |-> c.Round, Step |-> c.Step,
   Timestamp |-> c.Timestamp, SourceID |-> e.SourceID,
   SourceEphemeralSecretPublicKey |-> e.SourceEphemeralSecretPublicKey,
   EncryptedSharePart |-> e.EncryptedSharePart, SourceSig |-> g]

SetRequests ==
  UNION { { SetRequest(c, e, g) : g \in SourceSigs(e) } :
            c \in Coords, e \in Envelopes }

\* the requests concurrent callers make: those for one HRS and for the next
\* higher one, so that a call meets an entry of its own HRST, an entry below it
\* and none
ConcCoords == { Coord(1, 0, 2, 1), Coord(1, 1, 1, 1) }

ForConcCoords(req) ==
  Coord(req.Height, req.Round, req.Step, req.Timestamp) \in ConcCoords

ConcSignRequests ==
  { [SignBytes |-> MkSignBytes(c, b)] : c \in ConcCoords, b \in BlockIDs }
  \cup { [SignBytes |-> Undecodable] }

ConcDealRequests == ConcCoords

ConcGetRequests == { req \in GetRequests : ForConcCoords(req) }

ConcSetRequests == { req \in SetRequests : ForConcCoords(req) }

(***************************************************************************)
(* What a request asks for, in the terms of the sign state                 *)
(***************************************************************************)
\* a has a strictly lower (Height, Round, Step) than b
HRSBefore(a, b) ==
  \/ a.Height < b.Height
  \/ a.Height = b.Height /\ a.Round < b.Round
  \/ a.Height = b.Height /\ a.Round = b.Round /\ a.Step < b.Step

\* a sign request against the persisted sign state lss
SignKind(lss, signBytes) ==
  IF Len(signBytes) # SignBytesLen THEN "undecodable"
  ELSE LET hrst == UnpackHRST(signBytes).hrst
       IN IF HRSBefore(hrst, lss) THEN "lower"
          ELSE IF HRSBefore(lss, hrst) THEN "higher"
          ELSE IF signBytes = lss.SignBytes THEN "replay"
          ELSE IF NonTimestampFields(signBytes) = NonTimestampFields(lss.SignBytes)
          THEN "timestamp"
          ELSE "conflict"

\* the metadata hrsMeta holds for the HRST of a sign request
SignMeta(hm, hp, signBytes) ==
  LET up == UnpackHRST(signBytes)
  IN IF up.err # NoErr \/ up.hrst \notin DOMAIN hm THEN "none"
     ELSE IF \E i \in 1..total : Len(MetaAt(hm, hp, up.hrst).Peers[i].Share) # 0
     THEN "populated"
     ELSE "empty"

\* the source signature of a set request against the claimed source
SetKind(req) ==
  IF req.SourceSig = <<>> THEN "unsigned"
  ELSE IF req.SourceID \notin IDs THEN "unknown"
  ELSE IF req.SourceSig # SignPSS(req.SourceID,
             Digest(req.SourceID, req.SourceEphemeralSecretPublicKey,
                    req.EncryptedSharePart))
  THEN "forged"
  ELSE "authentic"

(***************************************************************************)
(* State                                                                   *)
(*   lastSignState, hrsMeta, heap : the fields of the cosigner             *)
(*   dealt     : draws made from the random source                         *)
(*   calls     : calls made so far, those of an earlier run included       *)
(*   last      : the call that returned last: the operation, what its      *)
(*               request asked for (kind, meta), the error it returned,    *)
(*               the line of its return statement, and for sign the        *)
(*               response, whether CheckHRS reported the persisted HRS and *)
(*               the sign bytes a returned signature is for, for get and   *)
(*               set the key they created metadata for                     *)
(*   signedLog : the sign bytes sign has returned a signature for          *)
(*   firstDeal : per key, what the first dealShares call for it returned   *)
(*   lastDeal  : what the last dealShares call returned, and for which key *)
(*   pc, mutex, fatal : the callers, lastSignStateMutex, and whether the   *)
(*               runtime has stopped the process.  A caller is at a        *)
(*               position of its operation and has its locals: the request *)
(*               (req), its key, the local meta (a reference into heap, 0  *)
(*               for none), what dealShares' lookup found, and for sign    *)
(*               the record of the call it is about to return from (out)   *)
(*               and the keys its range loop has still to visit (todo)     *)
(***************************************************************************)
Procs == 1..2

NoCall == [op |-> "none", kind |-> "", meta |-> "", err |-> NoErr, ret |-> 0,
           sameHRS |-> FALSE, res |-> NoRes, signed |-> <<>>,
           created |-> NoKey]

Returned(op, r) == [NoCall EXCEPT !.op = op, !.err = r.err, !.ret = r.ret]

NoReq == <<>>

Idle == [at |-> "idle", key |-> NoKey, found |-> FALSE, meta |-> 0,
         req |-> NoReq, out |-> NoCall, todo |-> {}]

\* the sign state of a cosigner that has never signed
FreshSignState ==
  [Height |-> 0, Round |-> 0, Step |-> 0, EphemeralPublic |-> <<>>,
   Signature |-> <<>>, SignBytes |-> <<>>]

\* what an earlier run of the process leaves behind when it has served
\* getEphemeralSecretPart and then sign for coordinate c and block b: the
\* persisted sign state, the draws it took from the random source, the
\* sign bytes it returned a signature for and the calls it has served
EarlierRun(c, b) ==
  LET g == getEphemeralSecretPart(EmptyMap, EmptyMap, 0,
             [Height |-> c.Height, Round |-> c.Round, Step |-> c.Step,
              Timestamp |-> c.Timestamp, ID |-> total])
      r == sign(FreshSignState, g.hrsMeta, g.heap,
                [SignBytes |-> MkSignBytes(c, b)])
  IN [lastSignState |-> r.lastSignState, dealt |-> g.dealt,
      signedLog |-> {MkSignBytes(c, b)}, calls |-> 2]

\* the process starts for the first time, or restarts with the sign state an
\* earlier run persisted (at the first HRS of CoordList, or at one with lower
\* ones below it)
Starts ==
  { [lastSignState |-> FreshSignState, dealt |-> 0, signedLog |-> {},
     calls |-> 0] }
  \cup { EarlierRun(CoordList[i], 1) : i \in {1, 3} }

\* the state after construction: the sign state is loaded, hrsMeta is empty
Init ==
  /\ \E start \in Starts :
       /\ lastSignState = start.lastSignState
       /\ dealt = start.dealt
       /\ signedLog = start.signedLog
       /\ calls = start.calls
  /\ hrsMeta = EmptyMap
  /\ heap = EmptyMap
  /\ last = NoCall
  /\ firstDeal = EmptyMap
  /\ lastDeal = NoDeal
  /\ pc = [p \in Procs |-> Idle]
  /\ mutex = 0
  /\ fatal = FALSE

(***************************************************************************)
(* The operations, each as one step on the fields of the cosigner          *)
(***************************************************************************)
SignEffect(req) ==
  LET r == sign(lastSignState, hrsMeta, heap, req)
  IN /\ calls < MaxCalls
     /\ calls' = calls + 1
     /\ lastSignState' = r.lastSignState
     /\ hrsMeta' = r.hrsMeta
     /\ heap' = r.heap
     /\ last' = [Returned("sign", r) EXCEPT
                   !.kind = SignKind(lastSignState, req.SignBytes),
                   !.meta = SignMeta(hrsMeta, heap, req.SignBytes),
                   !.sameHRS = r.sameHRS, !.res = r.res,
                   !.signed = IF r.err = NoErr THEN req.SignBytes ELSE <<>>]
     /\ signedLog' = IF r.err = NoErr THEN signedLog \cup {req.SignBytes}
                     ELSE signedLog
     /\ UNCHANGED dealt

GetEffect(req) ==
  LET r == getEphemeralSecretPart(hrsMeta, heap, dealt, req)
  IN /\ calls < MaxCalls
     /\ calls' = calls + 1
     /\ hrsMeta' = r.hrsMeta
     /\ heap' = r.heap
     /\ dealt' = r.dealt
     /\ last' = [Returned("get", r) EXCEPT
                   !.created = IF r.hrst \in DOMAIN hrsMeta THEN NoKey
                               ELSE r.hrst]
     /\ UNCHANGED <<lastSignState, signedLog>>

SetEffect(req) ==
  LET r == setEphemeralSecretPart(hrsMeta, heap, dealt, req)
  IN /\ calls < MaxCalls
     /\ calls' = calls + 1
     /\ hrsMeta' = r.hrsMeta
     /\ heap' = r.heap
     /\ dealt' = r.dealt
     /\ last' = [Returned("set", r) EXCEPT
                   !.kind = SetKind(req),
                   !.created = IF r.hrst \in DOMAIN hrsMeta THEN NoKey
                               ELSE r.hrst]
     /\ UNCHANGED <<lastSignState, signedLog>>

DealEffect(req) ==
  LET r == dealShares(hrsMeta, heap, dealt, req)
  IN /\ calls < MaxCalls
     /\ calls' = calls + 1
     /\ hrsMeta' = r.hrsMeta
     /\ heap' = r.heap
     /\ dealt' = r.dealt
     /\ last' = Returned("deal", r)
     /\ UNCHANGED <<lastSignState, signedLog>>

(***************************************************************************)
(* Spec: sign, getEphemeralSecretPart and setEphemeralSecretPart called    *)
(* one after the other                                                     *)
(***************************************************************************)
SignCall == \E req \in SignRequests :
  SignEffect(req) /\ UNCHANGED <<firstDeal, lastDeal, pc, mutex, fatal>>

GetCall == \E req \in GetRequests :
  GetEffect(req) /\ UNCHANGED <<firstDeal, lastDeal, pc, mutex, fatal>>

SetCall == \E req \in SetRequests :
  SetEffect(req) /\ UNCHANGED <<firstDeal, lastDeal, pc, mutex, fatal>>

Next == SignCall \/ GetCall \/ SetCall

Spec == Init /\ [][Next]_vars

(***************************************************************************)
(* SpecDeal: the same calls and direct calls of dealShares, with the       *)
(* record of what dealShares returned                                      *)
(***************************************************************************)
\* d: what the call's dealShares invocation returned (NoDeal: none made)
NoteDeal(d) ==
  IF d = NoDeal THEN UNCHANGED <<firstDeal, lastDeal>>
  ELSE /\ lastDeal' = d
       /\ firstDeal' =
            IF d.key \in DOMAIN firstDeal THEN firstDeal
            ELSE MapPut(firstDeal, d.key,
                        [Secret |-> d.Secret, DealtShares |-> d.DealtShares])

GetDealCall == \E req \in GetRequests :
  /\ GetEffect(req)
  /\ NoteDeal(getEphemeralSecretPart(hrsMeta, heap, dealt, req).deal)
  /\ UNCHANGED <<pc, mutex, fatal>>

SetDealCall == \E req \in SetRequests :
  /\ SetEffect(req)
  /\ NoteDeal(setEphemeralSecretPart(hrsMeta, heap, dealt, req).deal)
  /\ UNCHANGED <<pc, mutex, fatal>>

DealCall == \E req \in DealRequests :
  /\ DealEffect(req)
  /\ NoteDeal(DealRecord(dealShares(hrsMeta, heap, dealt, req)))
  /\ UNCHANGED <<pc, mutex, fatal>>

NextDeal == SignCall \/ GetDealCall \/ SetDealCall \/ DealCall

SpecDeal == Init /\ [][NextDeal]_vars

(***************************************************************************)
(* SpecConc: concurrent callers.  sign, getEphemeralSecretPart and         *)
(* setEphemeralSecretPart take lastSignStateMutex (lines 69, 205, 315) and *)
(* run their body holding it; setEphemeralSecretPart verifies the source   *)
(* signature before it takes the mutex.  dealShares takes no mutex, so a   *)
(* direct call of it runs beside the holder of the mutex.  A step of a     *)
(* caller is one access to hrsMeta with the lines before it that touch no  *)
(* shared map: a body that finds its metadata is one step, one that does   *)
(* not goes through the nested dealShares' lookup (line 172) and store     *)
(* (line 192) and its own store (line 230 or 339).  The range loop of sign *)
(* (lines 150-156) starts its iteration in one step and deletes one key    *)
(* per step: it visits every key the map held when the iteration started,  *)
(* and may or may not visit a key stored while it runs.  A map access that *)
(* overlaps a map write of another caller is a data race, which the        *)
(* runtime may answer by stopping the process.                             *)
(***************************************************************************)
At(p, at) == [pc EXCEPT ![p] = [Idle EXCEPT !.at = at]]

\* the references the callers' local meta values hold
Held(pcs) == { pcs[p].meta : p \in Procs } \ {0}

Lock(p, op) ==
  /\ ~fatal
  /\ pc[p].at = "idle"
  /\ calls < MaxConcCalls
  /\ mutex = 0
  /\ mutex' = p
  /\ pc' = At(p, op)
  /\ UNCHANGED <<lastSignState, hrsMeta, heap, dealt, calls, last, signedLog,
                 firstDeal, lastDeal, fatal>>

LockSign(p) == Lock(p, "sign")

LockGet(p) == Lock(p, "get")

LockSet(p) == Lock(p, "set")

\* the Unlock not deferred: an error return leaves the mutex held
UnlockNotOnError(p) ==
  /\ ~fatal
  /\ mutex = p
  /\ mutex' = IF last'.err = NoErr THEN 0 ELSE p
  /\ pc' = At(p, "idle")
  /\ UNCHANGED <<firstDeal, lastDeal, fatal>>

Unlock(p) ==
  /\ ~fatal
  /\ mutex = p
  /\ mutex' = 0
  /\ pc' = At(p, "idle")
  /\ UNCHANGED <<firstDeal, lastDeal, fatal>>

\* a return statement of a caller that holds the mutex
ReturnUnlock(p, out) ==
  /\ calls' = calls + 1
  /\ last' = out
  /\ Unlock(p)

\* a step inside an operation that does not return
Goto(p, local) ==
  /\ ~fatal
  /\ pc' = [pc EXCEPT ![p] = local]
  /\ UNCHANGED <<calls, last, mutex, firstDeal, lastDeal, fatal>>

\* sign, lines 71-148: every return before the delete loop, or the
\* signature computed and saved
RunSign(p) ==
  /\ pc[p].at = "sign"
  /\ \E req \in ConcSignRequests :
       LET r == sign(lastSignState, hrsMeta, heap, req)
           out == [Returned("sign", r) EXCEPT
                     !.kind = SignKind(lastSignState, req.SignBytes),
                     !.meta = SignMeta(hrsMeta, heap, req.SignBytes),
                     !.sameHRS = r.sameHRS, !.res = r.res,
                     !.signed = IF r.err = NoErr THEN req.SignBytes ELSE <<>>]
       IN /\ lastSignState' = r.lastSignState
          /\ IF r.ret = 160
             THEN /\ Goto(p, [Idle EXCEPT !.at = "signRange", !.key = r.hrst,
                                          !.req = req, !.out = out])
                  /\ UNCHANGED signedLog
             ELSE /\ ReturnUnlock(p, out)
                  /\ signedLog' = IF r.err = NoErr
                                  THEN signedLog \cup {req.SignBytes}
                                  ELSE signedLog
  /\ UNCHANGED <<hrsMeta, heap, dealt>>

\* sign, line 150: the range loop starts; it has to visit the keys the map
\* holds now (a visit of a key that is not lower does nothing)
SignRange(p) ==
  /\ pc[p].at = "signRange"
  /\ Goto(p, [pc[p] EXCEPT
                !.at = "signGC",
                !.todo = { existingKey \in DOMAIN hrsMeta :
                             Less(existingKey, pc[p].key) }])
  /\ UNCHANGED <<lastSignState, hrsMeta, heap, dealt, signedLog>>

\* sign, lines 150-155: the loop visits a lower key and deletes it
SignDelete(p) ==
  /\ pc[p].at = "signGC"
  /\ \E existingKey \in DOMAIN hrsMeta :
       /\ Less(existingKey, pc[p].key)
       /\ Goto(p, [pc[p] EXCEPT !.todo = @ \ {existingKey}])
       /\ hrsMeta' = MapDeleteAll(hrsMeta, {existingKey})
       /\ heap' = CollectHeld(hrsMeta', heap, Held(pc'))
  /\ UNCHANGED <<lastSignState, dealt, signedLog>>

\* sign, lines 156-160: the loop has visited what it had to, and sign
\* returns
SignReturn(p) ==
  /\ pc[p].at = "signGC"
  /\ pc[p].todo = {}
  /\ ReturnUnlock(p, pc[p].out)
  /\ signedLog' = signedLog \cup {pc[p].out.signed}
  /\ UNCHANGED <<lastSignState, hrsMeta, heap, dealt>>

\* getEphemeralSecretPart, lines 208-215, and lines 233-277 when the
\* metadata is found
RunGet(p) ==
  /\ pc[p].at = "get"
  /\ \E req \in ConcGetRequests :
       IF hrstOf(req) \in DOMAIN hrsMeta
       THEN LET g == getRespond(heap, hrsMeta[hrstOf(req)], req)
            IN /\ ReturnUnlock(p, Returned("get", g))
               /\ heap' = g.heap
       ELSE /\ Goto(p, [Idle EXCEPT !.at = "getDeal", !.key = hrstOf(req),
                                    !.req = req])
            /\ UNCHANGED heap
  /\ UNCHANGED <<lastSignState, hrsMeta, dealt, signedLog>>

\* lines 165-176 of the dealShares call of a body: the lookup
NestedLookup(p, from, to, draw, dealReq) ==
  /\ pc[p].at = from
  /\ LET hrsKey == dealSharesKey(dealReq)
     IN Goto(p, IF hrsKey \in DOMAIN hrsMeta
                THEN [pc[p] EXCEPT !.at = to, !.meta = hrsMeta[hrsKey]]
                ELSE [pc[p] EXCEPT !.at = draw])
  /\ UNCHANGED <<lastSignState, hrsMeta, heap, dealt, signedLog>>

\* lines 178-194 of the dealShares call of a body: the draw and the store
NestedStore(p, draw, to, dealReq) ==
  /\ pc[p].at = draw
  /\ LET r == dealSharesCreate(hrsMeta, heap, dealt, dealSharesKey(dealReq))
     IN /\ Goto(p, [pc[p] EXCEPT !.at = to, !.meta = r.meta])
        /\ hrsMeta' = r.hrsMeta
        /\ heap' = CollectHeld(r.hrsMeta, r.heap, Held(pc'))
        /\ dealt' = r.dealt
  /\ UNCHANGED <<lastSignState, signedLog>>

GetDealLookup(p) ==
  NestedLookup(p, "getDeal", "getStore", "getDraw", getDealRequest(pc[p].req))

GetDealStore(p) ==
  NestedStore(p, "getDraw", "getStore", getDealRequest(pc[p].req))

\* getEphemeralSecretPart, lines 229-277: the store under the request's
\* key, the own slot and the response
GetStore(p) ==
  /\ pc[p].at = "getStore"
  /\ LET g == getRespond(heap, pc[p].meta, pc[p].req)
     IN /\ ReturnUnlock(p, [Returned("get", g) EXCEPT !.created = pc[p].key])
        /\ hrsMeta' = MapPut(hrsMeta, pc[p].key, pc[p].meta)
        /\ heap' = CollectHeld(hrsMeta', g.heap, Held(pc'))
  /\ UNCHANGED <<lastSignState, dealt, signedLog>>

\* setEphemeralSecretPart, lines 318-325, and lines 343-351 when the
\* metadata is found
RunSet(p) ==
  /\ pc[p].at = "set"
  /\ \E req \in ConcSetRequests :
       /\ setVerify(req).err = NoErr
       /\ IF hrstOf(req) \in DOMAIN hrsMeta
          THEN LET w == setSlot(heap, hrsMeta[hrstOf(req)], req)
               IN /\ ReturnUnlock(p, [Returned("set", w) EXCEPT
                                        !.kind = SetKind(req)])
                  /\ heap' = w.heap
          ELSE /\ Goto(p, [Idle EXCEPT !.at = "setDeal", !.key = hrstOf(req),
                                       !.req = req])
               /\ UNCHANGED heap
  /\ UNCHANGED <<lastSignState, hrsMeta, dealt, signedLog>>

SetDealLookup(p) ==
  NestedLookup(p, "setDeal", "setStore", "setDraw", setDealRequest(pc[p].req))

SetDealStore(p) ==
  NestedStore(p, "setDraw", "setStore", setDealRequest(pc[p].req))

\* setEphemeralSecretPart, lines 338-351: the store under the request's
\* key and the sender's slot
SetStore(p) ==
  /\ pc[p].at = "setStore"
  /\ LET w == setSlot(heap, pc[p].meta, pc[p].req)
     IN /\ ReturnUnlock(p, [Returned("set", w) EXCEPT
                              !.kind = SetKind(pc[p].req),
                              !.created = pc[p].key])
        /\ hrsMeta' = MapPut(hrsMeta, pc[p].key, pc[p].meta)
        /\ heap' = CollectHeld(hrsMeta', w.heap, Held(pc'))
  /\ UNCHANGED <<lastSignState, dealt, signedLog>>

\* lines 284-312: a request that fails the verification returns before the
\* mutex is taken
RejectSet(p) ==
  /\ ~fatal
  /\ pc[p].at = "idle"
  /\ calls < MaxConcCalls
  /\ \E req \in ConcSetRequests : setVerify(req).err # NoErr /\ SetEffect(req)
  /\ UNCHANGED <<firstDeal, lastDeal, pc, mutex, fatal>>

\* lines 165-172 of a direct dealShares call
DealEnter(p) ==
  /\ pc[p].at = "idle"
  /\ \E req \in ConcDealRequests :
       Goto(p, [Idle EXCEPT !.at = "deal", !.key = dealSharesKey(req),
                            !.found = dealSharesKey(req) \in DOMAIN hrsMeta])
  /\ UNCHANGED <<lastSignState, hrsMeta, heap, dealt, signedLog>>

DealLookup(p) == calls < MaxConcCalls /\ DealEnter(p)

\* lines 174-194 of a direct dealShares call
DealStore(p) ==
  /\ ~fatal
  /\ pc[p].at = "deal"
  /\ calls' = calls + 1
  /\ pc' = At(p, "idle")
  /\ IF pc[p].found
     THEN /\ last' = [NoCall EXCEPT !.op = "deal", !.ret = 175]
          /\ UNCHANGED <<hrsMeta, heap, dealt>>
     ELSE LET r == dealSharesCreate(hrsMeta, heap, dealt, pc[p].key)
          IN /\ hrsMeta' = r.hrsMeta
             /\ heap' = CollectHeld(r.hrsMeta, r.heap, Held(pc'))
             /\ dealt' = r.dealt
             /\ last' = Returned("deal", r)
  /\ UNCHANGED <<lastSignState, signedLog, firstDeal, lastDeal, mutex, fatal>>

\* p is between the lock and the return of a body, where it accesses the map
InBody(p) ==
  pc[p].at \in {"sign", "signRange", "signGC",
                "get", "getDeal", "getDraw", "getStore",
                "set", "setDeal", "setDraw", "setStore"}

\* the next step of p writes hrsMeta: the store of line 192, 230 or 339, or
\* a delete of line 154
WillWrite(p) ==
  \/ pc[p].at = "deal" /\ ~pc[p].found
  \/ pc[p].at \in {"getDraw", "setDraw", "getStore", "setStore"}
  \/ pc[p].at = "signGC"
       /\ \E existingKey \in DOMAIN hrsMeta : Less(existingKey, pc[p].key)

\* the next step of p reads hrsMeta: the lookup of line 99 (when the request
\* gets that far), 172, 215 or 325, or the iteration of line 150
WillRead(p) ==
  \/ pc[p].at \in {"get", "set", "getDeal", "setDeal", "signRange", "signGC"}
  \/ pc[p].at = "sign"
       /\ \E req \in ConcSignRequests :
            sign(lastSignState, hrsMeta, heap, req).ret \notin {77, 82, 91, 93}

\* the store of line 192 of a direct dealShares call overlaps a map access
\* of another caller: the runtime may detect it and stop the process
Race ==
  /\ ~fatal
  /\ \E p, q \in Procs :
       /\ p # q
       /\ pc[p].at = "deal" /\ ~pc[p].found
       /\ WillRead(q) \/ WillWrite(q)
  /\ fatal' = TRUE
  /\ UNCHANGED <<lastSignState, hrsMeta, heap, dealt, calls, last, signedLog,
                 firstDeal, lastDeal, pc, mutex>>

\* the lookup of line 172 of a direct dealShares call that p makes overlaps
\* a map write of another caller: the runtime may detect it and stop the
\* process
LookupRace(p) ==
  /\ ~fatal
  /\ pc[p].at = "idle"
  /\ \E q \in Procs : q # p /\ WillWrite(q)
  /\ fatal' = TRUE
  /\ UNCHANGED <<lastSignState, hrsMeta, heap, dealt, calls, last, signedLog,
                 firstDeal, lastDeal, pc, mutex>>

DealLookupRace(p) == calls < MaxConcCalls /\ LookupRace(p)

\* the steps of the body of the operation p is inside
Run(p) ==
  \/ RunSign(p)
  \/ SignRange(p)
  \/ SignDelete(p)
  \/ SignReturn(p)
  \/ RunGet(p)
  \/ GetDealLookup(p)
  \/ GetDealStore(p)
  \/ GetStore(p)
  \/ RunSet(p)
  \/ SetDealLookup(p)
  \/ SetDealStore(p)
  \/ SetStore(p)

NextConc ==
  \/ \E p \in Procs : LockSign(p)
  \/ \E p \in Procs : LockGet(p)
  \/ \E p \in Procs : LockSet(p)
  \/ \E p \in Procs : RunSign(p)
  \/ \E p \in Procs : SignRange(p)
  \/ \E p \in Procs : SignDelete(p)
  \/ \E p \in Procs : SignReturn(p)
  \/ \E p \in Procs : RunGet(p)
  \/ \E p \in Procs : GetDealLookup(p)
  \/ \E p \in Procs : GetDealStore(p)
  \/ \E p \in Procs : GetStore(p)
  \/ \E p \in Procs : RunSet(p)
  \/ \E p \in Procs : SetDealLookup(p)
  \/ \E p \in Procs : SetDealStore(p)
  \/ \E p \in Procs : SetStore(p)
  \/ \E p \in Procs : RejectSet(p)
  \/ \E p \in Procs : DealLookup(p)
  \/ \E p \in Procs : DealStore(p)
  \/ \E p \in Procs : DealLookupRace(p)
  \/ Race

SpecConc == Init /\ [][NextConc]_vars

(***************************************************************************)
(* SpecLock: the same callers under fair scheduling.  A caller first calls *)
(* the operation, then acquires lastSignStateMutex (lines 69, 205, 315),   *)
(* then runs the body and releases the mutex with its return (the deferred *)
(* Unlock of lines 70, 206, 316); a caller of dealShares acquires nothing. *)
(* The goroutine scheduler runs every runnable caller, and sync.Mutex      *)
(* hands the mutex to a caller that keeps waiting for it.                  *)
(***************************************************************************)
InFlight == Cardinality({ p \in Procs : pc[p].at # "idle" })

Call(p, op) ==
  /\ ~fatal
  /\ pc[p].at = "idle"
  /\ calls + InFlight < MaxLockCalls
  /\ pc' = At(p, op)
  /\ UNCHANGED <<lastSignState, hrsMeta, heap, dealt, calls, last, signedLog,
                 firstDeal, lastDeal, mutex, fatal>>

CallSign(p) == Call(p, "callSign")

CallGet(p) == Call(p, "callGet")

CallSet(p) == Call(p, "callSet")

CallDeal(p) == calls + InFlight < MaxLockCalls /\ DealEnter(p)

CallDealRace(p) == calls + InFlight < MaxLockCalls /\ LookupRace(p)

Acquire(p, from, op) ==
  /\ ~fatal
  /\ pc[p].at = from
  /\ mutex = 0
  /\ mutex' = p
  /\ pc' = At(p, op)
  /\ UNCHANGED <<lastSignState, hrsMeta, heap, dealt, calls, last, signedLog,
                 firstDeal, lastDeal, fatal>>

AcquireSign(p) == Acquire(p, "callSign", "sign")

AcquireGet(p) == Acquire(p, "callGet", "get")

AcquireSet(p) == Acquire(p, "callSet", "set")

\* lines 284-312: a called set whose request fails the verification returns
\* without taking the mutex
ReturnUnverified(p) ==
  /\ ~fatal
  /\ pc[p].at = "callSet"
  /\ \E req \in ConcSetRequests : setVerify(req).err # NoErr /\ SetEffect(req)
  /\ pc' = At(p, "idle")
  /\ UNCHANGED <<firstDeal, lastDeal, mutex, fatal>>

NextLock ==
  \/ \E p \in Procs : CallSign(p)
  \/ \E p \in Procs : CallGet(p)
  \/ \E p \in Procs : CallSet(p)
  \/ \E p \in Procs : CallDeal(p)
  \/ \E p \in Procs : AcquireSign(p)
  \/ \E p \in Procs : AcquireGet(p)
  \/ \E p \in Procs : AcquireSet(p)
  \/ \E p \in Procs : ReturnUnverified(p)
  \/ \E p \in Procs : RunSign(p)
  \/ \E p \in Procs : SignRange(p)
  \/ \E p \in Procs : SignDelete(p)
  \/ \E p \in Procs : SignReturn(p)
  \/ \E p \in Procs : RunGet(p)
  \/ \E p \in Procs : GetDealLookup(p)
  \/ \E p \in Procs : GetDealStore(p)
  \/ \E p \in Procs : GetStore(p)
  \/ \E p \in Procs : RunSet(p)
  \/ \E p \in Procs : SetDealLookup(p)
  \/ \E p \in Procs : SetDealStore(p)
  \/ \E p \in Procs : SetStore(p)
  \/ \E p \in Procs : DealStore(p)
  \/ \E p \in Procs : CallDealRace(p)
  \/ Race

\* p gets the mutex it waits for
AcquireAny(p) == AcquireSign(p) \/ AcquireGet(p) \/ AcquireSet(p)

FairLock ==
  \A p \in Procs :
    WF_vars(Run(p)) /\ WF_vars(DealStore(p)) /\ SF_vars(AcquireAny(p))

SpecLock == Init /\ [][NextLock]_vars /\ FairLock

(***************************************************************************)
(* Properties of sign against the persisted sign state                     *)
(***************************************************************************)
PersistedResponse(lss) ==
  [EphemeralPublic |-> lss.EphemeralPublic, Signature |-> lss.Signature]

SignedAgree(log) ==
  \A a, b \in log :
    HRSOf(UnpackHRST(a).hrst) = HRSOf(UnpackHRST(b).hrst)
      => NonTimestampFields(a) = NonTimestampFields(b)

\* C1: no double-sign.  All sign bytes sign has returned a signature for
\* that share an HRS agree in every field other than the timestamp, and a
\* sign request at the persisted HRS whose sign bytes differ from the
\* persisted ones in another field returns ConflictingDataError and leaves
\* the persisted sign state unchanged.
C1_NoDoubleSign ==
  [][/\ SignedAgree(signedLog')
     /\ last'.op = "sign" /\ last'.kind = "conflict"
          => /\ last'.err = "ConflictingDataError"
             /\ last'.res = NoRes
             /\ lastSignState' = lastSignState]_vars

C1_Witness ==
  /\ last.op = "sign" /\ last.kind = "conflict"
  /\ last.err = "ConflictingDataError"
  /\ signedLog # {}

\* C2: HRS monotonicity.  The (Height, Round, Step) of the persisted sign
\* state never decreases from one state to the next.
C2_HRSMonotonic == [][~HRSBefore(lastSignState', lastSignState)]_vars

C2_Witness ==
  /\ last.op = "sign" /\ last.kind = "higher" /\ last.err = NoErr
  /\ Cardinality(signedLog) >= 2

\* C3: regression refusal.  A sign request whose HRS is strictly lower than
\* the persisted HRS returns RegressionError and no signature, leaves the
\* sign state unchanged and neither creates nor deletes an hrsMeta entry.
C3_RegressionRefused ==
  [][last'.op = "sign" /\ last'.kind = "lower"
       => /\ last'.err = "RegressionError"
          /\ last'.res = NoRes
          /\ lastSignState' = lastSignState
          /\ hrsMeta' = hrsMeta
          /\ heap' = heap]_vars

C3_Witness ==
  /\ last.op = "sign" /\ last.kind = "lower"
  /\ last.err = "RegressionError"
  /\ last.meta = "none"

\* C4: replay idempotence.  A sign request whose sign bytes are identical to
\* the persisted ones returns the persisted EphemeralPublic and Signature,
\* which every successful sign has returned as its response, before any
\* Save, and leaves the sign state and hrsMeta unchanged, whether hrsMeta
\* holds an entry for that HRST or, after a restart, none.
C4_ReplayIdempotent ==
  [][/\ last'.op = "sign" /\ last'.err = NoErr
          => last'.res = PersistedResponse(lastSignState')
     /\ last'.op = "sign" /\ last'.kind = "replay"
          => /\ last'.err = NoErr
             /\ last'.res = PersistedResponse(lastSignState)
             /\ last'.ret = 91
             /\ lastSignState' = lastSignState
             /\ hrsMeta' = hrsMeta
             /\ heap' = heap]_vars

\* a replay answered after a restart, when hrsMeta holds no entry for the
\* persisted HRST
C4_Witness ==
  /\ last.op = "sign" /\ last.kind = "replay" /\ last.err = NoErr
  /\ last.meta = "none"
  /\ last.res.Signature # <<>>

\* C5: timestamp-only rewrite.  A sign request at the persisted HRS whose
\* sign bytes differ from the persisted ones only in the timestamp is not
\* refused by the sign-state checks, and with populated metadata for its
\* HRST it succeeds and returns a signature over its sign bytes.
C5_TimestampRewrite ==
  [][last'.op = "sign" /\ last'.kind = "timestamp"
       => /\ last'.err \notin {"RegressionError", "ConflictingDataError",
                               "SameHRSError"}
          /\ last'.meta = "populated"
               => /\ last'.err = NoErr
                  /\ last'.res.Signature # <<>>
                  /\ last'.res.Signature = lastSignState'.Signature
                  /\ lastSignState'.SignBytes # lastSignState.SignBytes]_vars

C5_Witness ==
  /\ last.op = "sign" /\ last.kind = "timestamp" /\ last.meta = "populated"
  /\ last.err = NoErr
  /\ Cardinality(signedLog) >= 2

\* C6: garbage collection.  Whenever a sign call at HRS h returns success,
\* on the replay path too, hrsMeta holds at that moment no key whose
\* (Height, Round, Step) is strictly lower than h (h is then the persisted
\* HRS).
C6_NoLowerEntryAfterSign ==
  last.op = "sign" /\ last.err = NoErr
    => \A k \in DOMAIN hrsMeta : ~HRSBefore(k, lastSignState)

(***************************************************************************)
(* Properties of setEphemeralSecretPart and getEphemeralSecretPart         *)
(***************************************************************************)
\* C8: peer authentication.  A set request whose source signature is
\* missing, whose source is unknown, or whose signature does not verify
\* under the key of the claimed source returns an error, leaves every peer
\* slot as it was and creates no hrsMeta entry; so every slot set populates
\* comes from an envelope signed by the claimed source.
C8_PeerAuthenticated ==
  [][last'.op = "set"
       => /\ last'.kind = "unsigned"
               => last'.err = "SourceSig field is required"
          /\ last'.kind = "unknown" => last'.err = "unknown cosigner"
          /\ last'.kind = "forged" => last'.err = "PeerAuthError"
          /\ last'.err # NoErr /\ last'.kind # "authentic"
               => hrsMeta' = hrsMeta /\ heap' = heap
          /\ hrsMeta' # hrsMeta \/ heap' # heap
               => last'.kind = "authentic"]_vars

C8_Witness ==
  /\ last.op = "set" /\ last.kind = "forged" /\ last.err = "PeerAuthError"
  /\ \E k \in DOMAIN hrsMeta :
       Len(MetaAt(hrsMeta, heap, k).Peers[total].Share) # 0

\* the HRSTKey a get or set request is for
KeyOf(req) == HRSTKey(req.Height, req.Round, req.Step, UnixNano(req.Timestamp))

\* every entry hrsMeta holds under another key than k stays, with the same
\* Secret, DealtShares and peer slots
OthersUnchanged(k) ==
  \A other \in DOMAIN hrsMeta \ {k} :
    /\ other \in DOMAIN hrsMeta'
    /\ MetaAt(hrsMeta', heap', other) = MetaAt(hrsMeta, heap, other)

\* C10: independence of HRSTs.  A getEphemeralSecretPart or
\* setEphemeralSecretPart call for HRST k leaves the Secret, DealtShares and
\* every peer slot of the entry of every other key unchanged.
C10_OtherEntriesUnchanged ==
  [][/\ \A req \in GetRequests : GetEffect(req) => OthersUnchanged(KeyOf(req))
     /\ \A req \in SetRequests : SetEffect(req) => OthersUnchanged(KeyOf(req))]_vars

(***************************************************************************)
(* Properties of dealShares                                                *)
(***************************************************************************)
\* C7: dealing is idempotent per HRST.  Every invocation of dealShares for
\* a key, direct or through getEphemeralSecretPart or
\* setEphemeralSecretPart, returns the Secret and the DealtShares that the
\* first invocation for that key returned.
C7_DealsOnce ==
  lastDeal # NoDeal
    => /\ lastDeal.key \in DOMAIN firstDeal
       /\ lastDeal.Secret = firstDeal[lastDeal.key].Secret
       /\ lastDeal.DealtShares = firstDeal[lastDeal.key].DealtShares

(***************************************************************************)
(* Properties of concurrent callers                                        *)
(***************************************************************************)
\* C9: mutual exclusion.  Every caller that is inside one of the four
\* operations, between its first and its last access to hrsMeta or
\* lastSignState, holds the mutex, so no two callers are inside at once.
C9_MutualExclusion ==
  /\ \A p \in Procs : pc[p].at # "idle" => mutex = p
  /\ \A p, q \in Procs : p # q => pc[p].at = "idle" \/ pc[q].at = "idle"

(***************************************************************************)
(* Properties of the signature sign computes                               *)
(***************************************************************************)
\* the HRSTKey of the persisted sign bytes
PersistedKey == UnpackHRST(lastSignState.SignBytes).hrst

\* the slots of a Peers vector that hold a share
Populated(peerSlots) ==
  { i \in 1..Len(peerSlots) : Len(peerSlots[i].Share) # 0 }

\* sign has just computed and saved a new signature
NewlySigned == last.op = "sign" /\ last.err = NoErr /\ last.ret = 160

\* C11: per-HRS state machine.  sign returns a newly computed signature for
\* an HRST only if at least threshold slots of that HRST's Peers vector
\* hold a share.
C11_ThresholdSlots ==
  NewlySigned
    => Cardinality(Populated(MetaAt(hrsMeta, heap, PersistedKey).Peers))
         >= threshold

\* C12: durable before release.  Whenever sign returns success with a
\* response for sign bytes b, lastSignState records that signing at the
\* moment of return: its SignBytes are b and its Signature and
\* EphemeralPublic are those of the response.
C12_DurableBeforeRelease ==
  last.op = "sign" /\ last.err = NoErr
    => /\ lastSignState.SignBytes = last.signed
       /\ lastSignState.Signature = last.res.Signature
       /\ lastSignState.EphemeralPublic = last.res.EphemeralPublic
       /\ HRSOf(lastSignState) = HRSOf(UnpackHRST(last.signed).hrst)

C12_Witness ==
  /\ NewlySigned
  /\ last.signed # <<>>
  /\ last.signed = lastSignState.SignBytes
  /\ last.res.Signature # <<>>

\* C14: GC is exact.  After a sign call at HRST k that computes and saves a
\* new signature, hrsMeta consists of exactly the entries it held before the
\* call whose (Height, Round, Step) is not strictly lower than k's, each with
\* unchanged content: the entry of k and entries at k's HRS with another
\* timestamp stay, every entry below k goes.
C14_ExactGC ==
  [][last'.op = "sign" /\ last'.err = NoErr /\ last'.ret = 160
       => LET k == UnpackHRST(last'.signed).hrst
          IN /\ DOMAIN hrsMeta' =
                  { e \in DOMAIN hrsMeta : ~HRSBefore(e, k) }
             /\ k \in DOMAIN hrsMeta'
             /\ \A e \in DOMAIN hrsMeta' :
                  MetaAt(hrsMeta', heap', e) = MetaAt(hrsMeta, heap, e)]_vars

C14_Witness ==
  /\ NewlySigned
  /\ \E e \in DOMAIN hrsMeta :
       e # PersistedKey /\ HRSOf(e) = HRSOf(PersistedKey)
  /\ Cardinality(DOMAIN heap) < dealt

(***************************************************************************)
(* Properties of the metadata get and set create                           *)
(***************************************************************************)
\* C15: no parts for a lower HRS.  Once sign has succeeded at HRS h, every
\* later getEphemeralSecretPart for an HRS strictly lower than h deals no
\* new nonce and returns no share part.
C15_NoPartsBelowSigned ==
  [][\A req \in GetRequests :
       GetEffect(req) /\ HRSBefore(req, lastSignState)
         => dealt' = dealt /\ last'.err # NoErr]_vars

\* the key dealShares uses for a request that carries no Timestamp
ZeroTimeKey(k) == HRSTKey(k.Height, k.Round, k.Step, UnixNano(ZeroTime))

\* the slots of senders that hold a share in the entry stored under k
SenderSlots(hm, hp, k) == Populated(MetaAt(hm, hp, k).Peers) \cap Senders

\* setEphemeralSecretPart has just created the metadata of its request's key
\* and stored a share
LazilySet == last.op = "set" /\ last.err = NoErr /\ last.created # NoKey

\* C16 as stated: the metadata setEphemeralSecretPart creates lazily is
\* stored under the key with Timestamp 0 only, so the slot it writes is not
\* in the entry of the request's HRST, which get and sign read.
C16_SetSlotUnderZeroOnly ==
  LazilySet
    => /\ HRSTKey(last.created.Height, last.created.Round,
                  last.created.Step, 0) \in DOMAIN hrsMeta
       /\ \/ last.created \notin DOMAIN hrsMeta
          \/ SenderSlots(hrsMeta, heap, last.created) = {}

\* C16, amended: the metadata setEphemeralSecretPart creates lazily is stored
\* under the key of the zero time.Time and under the key of the request; both
\* keys hold the same metadata, so the slot set writes is in the entry that
\* get and sign read for the request's HRST.
C16_SetSlotUnderBothKeys ==
  LazilySet
    => /\ last.created \in DOMAIN hrsMeta
       /\ ZeroTimeKey(last.created) \in DOMAIN hrsMeta
       /\ ZeroTimeKey(last.created) # last.created
       /\ hrsMeta[ZeroTimeKey(last.created)] = hrsMeta[last.created]
       /\ SenderSlots(hrsMeta, heap, last.created) # {}

C16_Witness ==
  /\ LazilySet
  /\ last.created.Timestamp > 0
  /\ SenderSlots(hrsMeta, heap, ZeroTimeKey(last.created)) # {}

\* the envelope sender s produced for this cosigner, with its signature
SentEnvelope(s) ==
  [SourceID |-> s, SourceEphemeralSecretPublicKey |-> PeerPub(s),
   EncryptedSharePart |-> EncryptOAEP(SelfID, PeerShare(s))]

Retargeted(c, s) ==
  SetRequest(c, SentEnvelope(s), SignPSS(s, EnvelopeDigest(SentEnvelope(s))))

SentSlot(s) ==
  [Share |-> PeerShare(s), EphemeralSecretPublicKey |-> PeerPub(s)]

\* C17: envelope re-targeting.  Whatever the state, an envelope a peer
\* produced and addressed to this cosigner is accepted by
\* setEphemeralSecretPart with any Height, Round, Step and Timestamp, and
\* fills that peer's slot in the metadata of that HRST.
C17_Retargetable ==
  \A c \in Coords, s \in Senders :
    LET r == setEphemeralSecretPart(hrsMeta, heap, dealt, Retargeted(c, s))
    IN /\ r.err = NoErr
       /\ KeyOf(c) \in DOMAIN r.hrsMeta
       /\ MetaAt(r.hrsMeta, r.heap, KeyOf(c)).Peers[s] = SentSlot(s)

C17_Witness ==
  /\ last.op = "set" /\ last.err = NoErr /\ last.kind = "authentic"
  /\ \E k1, k2 \in DOMAIN hrsMeta, s \in Senders :
       /\ HRSOf(k1) # HRSOf(k2)
       /\ MetaAt(hrsMeta, heap, k1).Peers[s] = SentSlot(s)
       /\ MetaAt(hrsMeta, heap, k2).Peers[s] = SentSlot(s)

\* C18: no nonce reuse.  No two distinct keys of hrsMeta hold the same
\* locally generated Secret or share the storage of their DealtShares and
\* Peers.
C18_NoSharedNonce ==
  \A k1, k2 \in DOMAIN hrsMeta :
    k1 # k2
      => /\ hrsMeta[k1] # hrsMeta[k2]
         /\ MetaAt(hrsMeta, heap, k1).Secret # MetaAt(hrsMeta, heap, k2).Secret

\* C19: sign is atomic on failure.  Whenever sign returns an error, every
\* field of lastSignState, EphemeralPublic included, is as before the call
\* and no hrsMeta entry has been deleted.
C19_AtomicOnFailure ==
  [][last'.op = "sign" /\ last'.err # NoErr
       => /\ lastSignState' = lastSignState
          /\ DOMAIN hrsMeta \subseteq DOMAIN hrsMeta']_vars

\* sign has refused a request below the persisted HRS for which hrsMeta
\* holds populated metadata
C19_Witness ==
  /\ last.op = "sign" /\ last.err = "RegressionError"
  /\ last.meta = "populated"
  /\ lastSignState.EphemeralPublic # <<>>

\* C20: own contribution.  Whenever sign computes a new signature for HRST
\* k, the own slot of k's metadata holds DealtShares[self] and Secret*B.
C20_OwnSlotIncluded ==
  NewlySigned
    => LET meta == MetaAt(hrsMeta, heap, PersistedKey)
       IN meta.Peers[SelfID] =
            [Share |-> meta.DealtShares[SelfID],
             EphemeralSecretPublicKey |-> ScalarMultiplyBase(meta.Secret)]

(***************************************************************************)
(* Properties of the mutex                                                 *)
(***************************************************************************)
Holding(p) == InBody(p)

Started(p) == pc[p].at # "idle"

\* C13: lock release and completion.  The mutex is held exactly by the
\* caller that is inside the body of sign, getEphemeralSecretPart or
\* setEphemeralSecretPart: it is released on every return, error returns
\* included, and the body never waits for it again; so, in a process the
\* runtime has not stopped, the holder can always take its next step and
\* every started operation eventually returns.
C13_ReleasedAndCompletes ==
  /\ [](\A p \in Procs : Holding(p) <=> mutex = p)
  /\ [](mutex # 0 /\ ~fatal => mutex \in Procs /\ ENABLED Run(mutex))
  /\ \A p \in Procs : Started(p) ~> (~Started(p) \/ fatal)

\* a call has returned an error and released the mutex, while the other
\* caller waits for the mutex or is inside a direct dealShares call
C13_Witness ==
  /\ last.op \in {"sign", "get"} /\ last.err # NoErr
  /\ mutex = 0 /\ ~fatal
  /\ \E p \in Procs : pc[p].at \in {"callSign", "callGet", "callSet", "deal"}
====
